---- MODULE Spec2Model ----
(***************************************************************************)
(* Model of the structured-query protocol of argent's CLI (AIRequest.ts):  *)
(* buildFunctionDeclarations, buildAIRequestParameters, extractAIResponse, *)
(* generateContent (transport retry) and requestAI (correction loop).      *)
(***************************************************************************)
EXTENDS Integers, Sequences, FiniteSets, TLC

(***************************************************************************)
(* Bounds of the model.                                                    *)
(***************************************************************************)
MaxShapes == 2

(***************************************************************************)
(* JavaScript values.  Every value is a record so that values of           *)
(* different JavaScript types can be compared.                             *)
(***************************************************************************)
Undefined == [t |-> "undefined"]

Str(s) == [t |-> "string", s |-> s]

Num(n) == [t |-> "number", n |-> n]

Arr(s) == [t |-> "array", arr |-> s]

\* JavaScript truthiness of a string, an object or undefined.
Truthy(v) == v # Undefined /\ v # Str("")

(***************************************************************************)
(* Answer shapes (AISelect): field key -> type-predicate string.           *)
(***************************************************************************)
HelloShape == ("answer" :> "\"Hello\"") @@ ("remarks" :> "string > 0")

\* The shapes main() selects from in its two queries.
RoleShape ==
  ("answer" :> "\"Role suitable for the task execution on this project\"")
    @@ ("role" :> "string > 0") @@ ("remarks" :> "string > 0")

StandardShape ==
  ("answer" :> "\"Standard and methodology on how the AI should execute the task\"")
    @@ ("standard" :> "string > 0") @@ ("methodology" :> "string > 0")
    @@ ("remarks" :> "string > 0")

WhyShape == ("answer" :> "\"Why\"") @@ ("remarks?" :> "string > 0")

Shapes == {HelloShape, WhyShape}

\* arktype: a key with a trailing `?` declares an optional property.
IsOptionalKey(k) == k = "remarks?"

KeyName(k) == IF k = "remarks?" THEN "remarks" ELSE k

\* arktype: the definition string of one property, parsed.
ParsePredicate(p) ==
  CASE p = "string > 0" -> [kind |-> "string", minLength |-> 1]
    [] p = "\"Hello\""  -> [kind |-> "unit", const |-> "Hello"]
    [] p = "\"Why\""    -> [kind |-> "unit", const |-> "Why"]
    [] p = "\"Role suitable for the task execution on this project\"" ->
         [kind |-> "unit", const |-> "Role suitable for the task execution on this project"]
    [] p = "\"Standard and methodology on how the AI should execute the task\"" ->
         [kind |-> "unit",
          const |-> "Standard and methodology on how the AI should execute the task"]

\* type(data[i]): the compiled validator of one shape.
Type(shape) ==
  [props    |-> [f \in {KeyName(k) : k \in DOMAIN shape} |->
                   ParsePredicate(shape[CHOOSE k \in DOMAIN shape : KeyName(k) = f])],
   required |-> {KeyName(k) : k \in {j \in DOMAIN shape : ~IsOptionalKey(j)}}]

\* validator.toJsonSchema()
PropJsonSchema(p) ==
  IF p.kind = "unit" THEN [const |-> p.const]
  ELSE [type |-> "string", minLength |-> p.minLength]

ToJsonSchema(T) ==
  [type       |-> "object",
   properties |-> [f \in DOMAIN T.props |-> PropJsonSchema(T.props[f])],
   required   |-> T.required]

\* One property of the argument object against its compiled predicate.
PropProblem(p, v) ==
  IF p.kind = "unit"
  THEN IF v = Str(p.const) THEN "" ELSE "must be the literal"
  ELSE IF v.t # "string" THEN "must be a string"
       ELSE IF Len(v.s) < p.minLength THEN "must be non-empty" ELSE ""

\* Variant: a missing required property is not reported.
Validate_presentOnly(T, args) ==
  LET wrong == {[path |-> f, problem |-> PropProblem(T.props[f], args[f])] :
                  f \in {g \in DOMAIN T.props \cap DOMAIN args :
                           PropProblem(T.props[g], args[g]) # ""}}
  IN IF wrong = {}
     THEN [ok |-> TRUE, data |-> args]
     ELSE [ok |-> FALSE, summary |-> wrong]

\* validator(args): ArkErrors (ok = FALSE, with its summary) or the data.
Validate(T, args) ==
  LET missing == {[path |-> f, problem |-> "must be present"] :
                    f \in T.required \ DOMAIN args}
      wrong   == {[path |-> f, problem |-> PropProblem(T.props[f], args[f])] :
                    f \in {g \in DOMAIN T.props \cap DOMAIN args :
                             PropProblem(T.props[g], args[g]) # ""}}
  IN IF missing \cup wrong = {}
     THEN [ok |-> TRUE, data |-> args]
     ELSE [ok |-> FALSE, summary |-> missing \cup wrong]

(***************************************************************************)
(* buildFunctionDeclarations / buildAIRequestParameters                    *)
(***************************************************************************)
\* `option-${i}` for the zero-based position i.
OptionName(i) == <<"option-0", "option-1", "option-2", "option-3", "option-4">>[i + 1]

\* Variant: the validators are bound to the shapes in reverse order.
buildFunctionDeclarations_reversed(data) ==
  [functionDeclarations |->
     [i \in 1..Len(data) |->
        [name |-> OptionName(i - 1), parametersJsonSchema |-> ToJsonSchema(Type(data[i]))]],
   allowedFunctionNames |-> [i \in 1..Len(data) |-> OptionName(i - 1)],
   validators |->
     [nm \in {OptionName(i - 1) : i \in 1..Len(data)} |->
        LET pos == CHOOSE i \in 1..Len(data) : OptionName(i - 1) = nm
        IN Type(data[Len(data) + 1 - pos])]]

buildFunctionDeclarations(data) ==
  [functionDeclarations |->
     [i \in 1..Len(data) |->
        [name |-> OptionName(i - 1), parametersJsonSchema |-> ToJsonSchema(Type(data[i]))]],
   allowedFunctionNames |-> [i \in 1..Len(data) |-> OptionName(i - 1)],
   validators |->
     [nm \in {OptionName(i - 1) : i \in 1..Len(data)} |->
        LET last == CHOOSE i \in 1..Len(data) :
                      /\ OptionName(i - 1) = nm
                      /\ \A j \in 1..Len(data) : OptionName(j - 1) = nm => j <= i
        IN Type(data[last])]]

\* context.map((c) => c.value).join('\n'), kept as the list of its pieces.
RECURSIVE JoinLines(_)
JoinLines(values) ==
  IF Len(values) = 0 THEN <<>>
  ELSE IF Len(values) = 1 THEN <<values[1]>>
  ELSE <<values[1], "\n">> \o JoinLines(Tail(values))

\* Variant: the selection is not forced (mode AUTO).
buildAIRequestParameters_autoMode(input) ==
  LET functions == buildFunctionDeclarations(input.select)
      system    == JoinLines([i \in 1..Len(input.context) |-> input.context[i].value])
      user      == [template |-> "query", query |-> input.query.value,
                    schema |-> functions.functionDeclarations]
  IN [validators |-> functions.validators,
      request |->
        [model    |-> "gemini-flash-latest",
         contents |-> << [parts |-> << [text |-> user] >>, role |-> "user"] >>,
         config   |->
           [systemInstruction |-> system,
            toolConfig |-> [functionCallingConfig |->
                              [mode |-> "AUTO",
                               allowedFunctionNames |-> functions.allowedFunctionNames]],
            tools |-> << [functionDeclarations |-> functions.functionDeclarations] >>,
            temperature |-> 0]]]

buildAIRequestParameters(input) ==
  LET functions == buildFunctionDeclarations(input.select)
      system    == JoinLines([i \in 1..Len(input.context) |-> input.context[i].value])
      user      == [template |-> "query", query |-> input.query.value,
                    schema |-> functions.functionDeclarations]
  IN [validators |-> functions.validators,
      request |->
        [model    |-> "gemini-flash-latest",
         contents |-> << [parts |-> << [text |-> user] >>, role |-> "user"] >>,
         config   |->
           [systemInstruction |-> system,
            toolConfig |-> [functionCallingConfig |->
                              [mode |-> "ANY",
                               allowedFunctionNames |-> functions.allowedFunctionNames]],
            tools |-> << [functionDeclarations |-> functions.functionDeclarations] >>,
            temperature |-> 0]]]

(***************************************************************************)
(* extractAIResponse                                                       *)
(***************************************************************************)
\* JavaScript property read: a missing property reads as undefined.
Get(obj, f) == IF f \in DOMAIN obj THEN obj[f] ELSE Undefined

\* a?.f
OptGet(obj, f) == IF obj = Undefined THEN Undefined ELSE Get(obj, f)

\* (a ?? [])[0]
FirstOrUndefined(a) ==
  IF a = Undefined THEN Undefined
  ELSE IF Len(a.arr) = 0 THEN Undefined ELSE a.arr[1]

\* The first content part the expression reaches: undefined when there is
\* no candidate, no content, no parts or an empty parts list.
FirstPart(response) ==
  FirstOrUndefined(
    OptGet(OptGet(FirstOrUndefined(OptGet(response, "candidates")), "content"), "parts"))

\* Variant: the first part that carries a function call is taken.
extractAIResponse_anyPart(response) ==
  LET parts == OptGet(OptGet(FirstOrUndefined(OptGet(response, "candidates")), "content"),
                      "parts")
      calls == IF parts = Undefined THEN {}
               ELSE {i \in 1..Len(parts.arr) : "functionCall" \in DOMAIN parts.arr[i]}
  IN IF calls = {}
     THEN [kind |-> "throw", error |-> "Bad LLM response", logged |-> TRUE]
     ELSE LET fc   == parts.arr[CHOOSE i \in calls : \A j \in calls : i <= j].functionCall
              name == OptGet(fc, "name")
              args == OptGet(fc, "args")
          IN IF ~Truthy(args) \/ ~Truthy(name)
             THEN [kind |-> "throw", error |-> "Bad LLM response", logged |-> TRUE]
             ELSE [kind |-> "ok", name |-> name.s, args |-> args]

extractAIResponse(response) ==
  LET part == FirstPart(response)
  IN IF part = Undefined
     THEN \* `undefined.functionCall`: the property read itself throws
          [kind |-> "throw", error |-> "TypeError: reading functionCall of undefined",
           logged |-> FALSE]
     ELSE LET fc   == Get(part, "functionCall")
              name == OptGet(fc, "name")
              args == OptGet(fc, "args")
          IN IF ~Truthy(args) \/ ~Truthy(name)
             THEN [kind |-> "throw", error |-> "Bad LLM response", logged |-> TRUE]
             ELSE [kind |-> "ok", name |-> name.s, args |-> args]

(***************************************************************************)
(* The provider: what one remote call can produce.                         *)
(***************************************************************************)
Fields == {"answer", "remarks"}

\* The values a model may put in a field: either literal for the
\* discriminant; a non-empty string, an empty one or a number for the
\* remarks.
FieldValues ==
  [answer  |-> {Str("Hello"), Str("Why")},
   remarks |-> {Str("Roses are red."), Str(""), Num(7)}]

\* Every argument object over the fields, any of them possibly absent.
ArgsSet ==
  UNION {{a \in [D -> UNION {FieldValues[f] : f \in Fields}] :
            \A f \in D : a[f] \in FieldValues[f]} : D \in SUBSET Fields}

\* Members every object literal inherits from Object.prototype.
ObjectPrototypeKeys == {"constructor", "toString", "__proto__"}

\* The compiled identifiers a request can have, and one beyond them.
OptionNames == {OptionName(i) : i \in 0..MaxShapes}

InheritedArgs == {[answer |-> Str("Why"), remarks |-> Str("")], [answer |-> Str("Hello")]}

Part(fc) == [functionCall |-> fc]

Response(parts) == [candidates |-> Arr(<< [content |-> [parts |-> Arr(parts), role |-> "model"]] >>)]

WellFormedResponses ==
  {Response(<< Part([name |-> Str(n), args |-> a]) >>) : n \in OptionNames, a \in ArgsSet}
  \cup {Response(<< Part([name |-> Str(n), args |-> a]) >>) :
          n \in ObjectPrototypeKeys, a \in InheritedArgs}

SomeArgs == [answer |-> Str("Hello"), remarks |-> Str("Roses are red.")]

MalformedResponses ==
  { Undefined,
    [promptFeedback |-> Str("blocked")],
    [candidates |-> Arr(<< >>)],
    [candidates |-> Arr(<< [finishReason |-> Str("SAFETY")] >>)],
    [candidates |-> Arr(<< [content |-> [role |-> "model"]] >>)],
    Response(<< >>),
    Response(<< [text |-> Str("no")] >>),
    Response(<< [text |-> Str("no")], Part([name |-> Str("option-0"), args |-> SomeArgs]) >>),
    Response(<< Part([args |-> SomeArgs]) >>),
    Response(<< Part([name |-> Str(""), args |-> SomeArgs]) >>),
    Response(<< Part([name |-> Str("option-0")]) >>) }

Responses == WellFormedResponses \cup MalformedResponses

\* Errors a remote call can reject with.
ApiError(status) == [kind |-> "ApiError", status |-> status]

Error(message) == [kind |-> "Error", message |-> message]

NoError == [kind |-> "none"]

RemoteErrors == {ApiError(503), ApiError(500), ApiError(429), Error("fetch failed")}

(***************************************************************************)
(* Inputs of requestAI and the environment.                                *)
(***************************************************************************)
SelectLists == UNION {[1..n -> Shapes] : n \in 1..MaxShapes}

Inputs ==
  {[query   |-> [value |-> "Determine the role"],
    context |-> << [value |-> "# Task"], [value |-> "# Project Dirtree"] >>,
    select  |-> sel] : sel \in SelectLists}

EnvKeys == {Undefined, Str(""), Str("secret")}

(***************************************************************************)
(* Program constants.                                                      *)
(***************************************************************************)
\* DEFAULT_RETRY_OPTIONS.maxRetries
DefaultMaxRetries == 5

\* let triesLeft = 2
InitialTriesLeft == 2

(***************************************************************************)
(* State of one requestAI operation.  The operation runs on one thread of  *)
(* control and is suspended only at `await`: each action is the code that  *)
(* runs from one suspension point to the next.                             *)
(***************************************************************************)
VARIABLES
  pc,          \* "start", "remote" (awaiting the remote call), "delay"
               \* (awaiting the timer), "returned" or "raised"
  envKey,      \* process.env.GEMINI_API_KEY
  input,       \* the AIRequest passed to requestAI
  request,     \* params.request (its contents are the conversation)
  validators,  \* params.validators
  triesLeft,   \* the correction countdown of requestAI
  maxRetries,  \* opts.maxRetries of the current generateContent frame
  raw,         \* the response generateContent returned last
  name,        \* the identifier extracted last
  args,        \* the argument object extracted last
  result,      \* the value requestAI returned
  error,       \* the error requestAI raised
  logged,      \* the responses written by console.error(response)
  calls,       \* remote calls made by the operation
  submissions, \* generateContent invocations made by the loop
  received,    \* responses generateContent returned to the loop
  gcCalls,     \* remote calls made inside the current invocation
  gcFails,     \* transient failures seen inside the current invocation
  gcDelays,    \* delays started inside the current invocation
  rejected,    \* the error the last remote call of the invocation rejected with
  ops,         \* several operations of one process: id -> operation record
  heap,        \* the conversation arrays of those operations, by reference
  mainPc,      \* position of main() of the CLI
  exitCode     \* process.exitCode (0 while unset)

\* The variables of the single operation.
operationVars == <<pc, input, request, validators, triesLeft, maxRetries, raw, name,
                   args, result, error, logged, calls, submissions, received, gcCalls,
                   gcFails, gcDelays, rejected>>

\* The variables of a process that runs several operations.
processVars == <<ops, heap, mainPc, exitCode>>

vars == <<pc, envKey, input, request, validators, triesLeft, maxRetries, raw, name,
          args, result, error, logged, calls, submissions, received, gcCalls,
          gcFails, gcDelays, rejected, ops, heap, mainPc, exitCode>>

NoResponse == [t |-> "none"]

\* The single operation before requestAI is entered.
OperationInit ==
  /\ pc = "start"
  /\ envKey \in EnvKeys
  /\ input \in Inputs
  /\ request = Undefined
  /\ validators = Undefined
  /\ triesLeft = 0
  /\ maxRetries = 0
  /\ raw = NoResponse
  /\ name = ""
  /\ args = Undefined
  /\ result = Undefined
  /\ error = NoError
  /\ logged = {}
  /\ calls = 0
  /\ submissions = 0
  /\ received = 0
  /\ gcCalls = 0
  /\ gcFails = 0
  /\ gcDelays = 0
  /\ rejected = NoError

Init ==
  /\ OperationInit
  /\ ops = << >>
  /\ heap = << >>
  /\ mainPc = "none"
  /\ exitCode = 0

Throw(e) == pc' = "raised" /\ error' = e

(***************************************************************************)
(* generateContent                                                         *)
(***************************************************************************)
\* Variant: the countdown stops one frame early.
NoRetriesLeft_early(mr) == mr <= 1

\* Variant: a frame with no retries left still makes its call.
NoRetriesLeft_late(mr) == mr < 0

\* if (opts.maxRetries <= 0)
NoRetriesLeft(mr) == mr <= 0

\* Entry of a generateContent frame with opts.maxRetries = mr, after
\* `made` remote calls of the same invocation: refuse, or issue the remote
\* call and suspend on it.
GenerateContentEntry(mr, made) ==
  /\ maxRetries' = mr
  /\ IF NoRetriesLeft(mr)
     THEN /\ Throw(Error("generateContent: no retries left"))
          /\ gcCalls' = made
          /\ UNCHANGED calls
     ELSE /\ pc' = "remote"
          /\ calls' = calls + 1
          /\ gcCalls' = made + 1
          /\ UNCHANGED error

\* Variant: every ApiError is retried.
IsTransient_anyApiError(e) == e.kind = "ApiError"

\* e instanceof ApiError && e.status === 503
IsTransient(e) == e.kind = "ApiError" /\ e.status = 503

\* The remote call rejects: rethrow, or start the fixed delay before a retry.
RemoteFailure ==
  /\ pc = "remote"
  /\ \E e \in RemoteErrors :
       /\ rejected' = e
       /\ IF IsTransient(e)
          THEN /\ pc' = "delay"
               /\ gcFails' = gcFails + 1
               /\ gcDelays' = gcDelays + 1
               /\ UNCHANGED error
          ELSE /\ Throw(e)
               /\ UNCHANGED <<gcFails, gcDelays>>
  /\ UNCHANGED <<envKey, input, request, validators, triesLeft, maxRetries, raw, name,
                 args, result, logged, calls, submissions, received, gcCalls>>
  /\ UNCHANGED processVars

\* Variant: the retry starts the whole operation over.
DelayDone_restarts ==
  /\ pc = "delay"
  /\ pc' = "start"
  /\ request' = Undefined
  /\ validators' = Undefined
  /\ triesLeft' = 0
  /\ maxRetries' = 0
  /\ calls' = 0
  /\ submissions' = 0
  /\ gcCalls' = 0
  /\ gcFails' = 0
  /\ gcDelays' = 0
  /\ rejected' = NoError
  /\ UNCHANGED <<envKey, input, raw, name, args, result, error, logged, received>>
  /\ UNCHANGED processVars

\* Variant: the retry leaves a note in the conversation.
DelayDone_notesRetry ==
  /\ pc = "delay"
  /\ GenerateContentEntry(maxRetries - 1, gcCalls)
  /\ request' = [request EXCEPT !.contents =
                   @ \o << [parts |-> << [text |-> [template |-> "retry"]] >>,
                            role |-> "user"] >>]
  /\ UNCHANGED <<envKey, input, validators, triesLeft, raw, name, args, result,
                 logged, submissions, received, gcFails, gcDelays, rejected>>
  /\ UNCHANGED processVars

\* The delay elapses: generateContent(ai, request, {maxRetries: maxRetries - 1}).
DelayDone ==
  /\ pc = "delay"
  /\ GenerateContentEntry(maxRetries - 1, gcCalls)
  /\ UNCHANGED <<envKey, input, request, validators, triesLeft, raw, name, args, result,
                 logged, submissions, received, gcFails, gcDelays, rejected>>
  /\ UNCHANGED processVars

(***************************************************************************)
(* requestAI                                                               *)
(***************************************************************************)
\* Variant: the loop runs once more.
HasTriesLeft_oneMore(t) == t >= 0

\* while (triesLeft-- > 0)
HasTriesLeft(t) == t > 0

\* Variant: the retry options are carried over from the previous submission.
LoopHead_sharedRetries(t) ==
  /\ triesLeft' = t - 1
  /\ IF HasTriesLeft(t)
     THEN /\ submissions' = submissions + 1
          /\ gcFails' = 0
          /\ gcDelays' = 0
          /\ rejected' = NoError
          /\ GenerateContentEntry(IF submissions = 0 THEN DefaultMaxRetries ELSE maxRetries, 0)
     ELSE /\ Throw(Error("Given up on trying to get well-formed response from LLM"))
          /\ UNCHANGED <<maxRetries, calls, submissions, gcCalls, gcFails, gcDelays,
                         rejected>>

\* The loop head with the countdown at t: test and decrement, then either
\* submit the request (a fresh generateContent invocation) or give up.
LoopHead(t) ==
  /\ triesLeft' = t - 1
  /\ IF HasTriesLeft(t)
     THEN /\ submissions' = submissions + 1
          /\ gcFails' = 0
          /\ gcDelays' = 0
          /\ rejected' = NoError
          /\ GenerateContentEntry(DefaultMaxRetries, 0)
     ELSE /\ Throw(Error("Given up on trying to get well-formed response from LLM"))
          /\ UNCHANGED <<maxRetries, calls, submissions, gcCalls, gcFails, gcDelays,
                         rejected>>

\* Variant: only an undefined credential counts as missing.
KeyMissing_undefinedOnly(key) == key = Undefined

\* if (!GEMINI_API_KEY)
KeyMissing(key) == ~Truthy(key)

\* Lines 152-165: build the parameters, check the credential, enter the loop.
RequestAIStart ==
  /\ pc = "start"
  /\ LET params == buildAIRequestParameters(input)
     IN /\ request' = params.request
        /\ validators' = params.validators
  /\ IF KeyMissing(envKey)
     THEN /\ Throw(Error("GEMINI_API_KEY environment variable is unset"))
          /\ UNCHANGED <<triesLeft, maxRetries, calls, submissions, gcCalls, gcFails,
                         gcDelays, rejected>>
     ELSE LoopHead(InitialTriesLeft)
  /\ UNCHANGED <<envKey, input, raw, name, args, result, logged, received>>
  /\ UNCHANGED processVars

\* JavaScript `key in obj` for an object literal: own keys and inherited ones.
In(key, obj) == key \in DOMAIN obj \cup ObjectPrototypeKeys

\* Variant: the instanceof ArkErrors test is inverted.
CallValidator_inverted(vs, nm, a) ==
  IF nm \in DOMAIN vs
  THEN LET v == Validate(vs[nm], a)
       IN IF v.ok THEN [kind |-> "ArkErrors", summary |-> {}]
          ELSE [kind |-> "data", value |-> a]
  ELSE [kind |-> "throw", error |-> "TypeError: params.validators[name] is not a function"]

\* Variant: the value returned keeps the discriminant only.
CallValidator_discriminantOnly(vs, nm, a) ==
  IF nm \in DOMAIN vs
  THEN LET v == Validate(vs[nm], a)
       IN IF v.ok THEN [kind |-> "data", value |-> [f \in {"answer"} |-> a[f]]]
          ELSE [kind |-> "ArkErrors", summary |-> v.summary]
  ELSE CASE nm = "constructor" -> [kind |-> "data", value |-> a]
         [] nm = "toString"    -> [kind |-> "data", value |-> Str("[object Object]")]
         [] OTHER              -> [kind |-> "throw",
                                   error |-> "TypeError: params.validators[name] is not a function"]

\* params.validators[name](args): a compiled validator, or whatever member
\* of Object.prototype the name reaches.
CallValidator(vs, nm, a) ==
  IF nm \in DOMAIN vs
  THEN LET v == Validate(vs[nm], a)
       IN IF v.ok THEN [kind |-> "data", value |-> v.data]
          ELSE [kind |-> "ArkErrors", summary |-> v.summary]
  ELSE CASE nm = "constructor" -> [kind |-> "data", value |-> a]
         [] nm = "toString"    -> [kind |-> "data", value |-> Str("[object Object]")]
         [] OTHER              -> [kind |-> "throw",
                                   error |-> "TypeError: params.validators[name] is not a function"]

\* Variant: the schema of the first option is rendered, whichever was selected.
SchemaOf_firstOption(vs, nm) == ToJsonSchema(vs["option-0"])

\* The schema re-rendered in the correction turn.
SchemaOf(vs, nm) == ToJsonSchema(vs[nm])

\* Variant: the correction is pushed before the echoed selection.
CorrectionTurns_swapped(nm, a, summary, schema) ==
  << [parts |-> << [text |-> [template |-> "correction", name |-> nm,
                              error |-> summary, schema |-> schema]] >>,
      role |-> "user"],
     [parts |-> << [functionCall |-> [name |-> nm, args |-> a]] >>, role |-> "model"] >>

\* The two turns pushed after a violation.
CorrectionTurns(nm, a, summary, schema) ==
  << [parts |-> << [functionCall |-> [name |-> nm, args |-> a]] >>, role |-> "model"],
     [parts |-> << [text |-> [template |-> "correction", name |-> nm,
                              error |-> summary, schema |-> schema]] >>,
      role |-> "user"] >>

\* Variant: the turns are put in front of the conversation.
Push_front(contents, turns) == turns \o contents

\* request.contents.push(...)
Push(contents, turns) == contents \o turns

\* Lines 172-207 for an identifier the lookup accepted.
Validation(nm, a) ==
  LET validated == CallValidator(validators, nm, a)
  IN CASE validated.kind = "throw" ->
            /\ Throw(Error(validated.error))
            /\ UNCHANGED <<request, result, triesLeft, maxRetries, calls, submissions,
                           gcCalls, gcFails, gcDelays, rejected>>
       [] validated.kind = "data" ->
            /\ pc' = "returned"
            /\ result' = validated.value
            /\ UNCHANGED <<request, error, triesLeft, maxRetries, calls, submissions,
                           gcCalls, gcFails, gcDelays, rejected>>
       [] validated.kind = "ArkErrors" ->
            /\ request' = [request EXCEPT !.contents =
                             Push(@, CorrectionTurns(nm, a, validated.summary,
                                                     SchemaOf(validators, nm)))]
            /\ LoopHead(triesLeft)
            /\ UNCHANGED result

\* The remote call resolves: generateContent returns the response through
\* its frames and the loop body runs up to its next suspension.
RemoteSuccess ==
  /\ pc = "remote"
  /\ \E response \in Responses :
       /\ raw' = response
       /\ received' = received + 1
       /\ LET r == extractAIResponse(response)
          IN IF r.kind = "throw"
             THEN /\ Throw(Error(r.error))
                  /\ logged' = IF r.logged THEN logged \cup {response} ELSE logged
                  /\ UNCHANGED <<name, args, request, result, triesLeft, maxRetries,
                                 calls, submissions, gcCalls, gcFails, gcDelays,
                                 rejected>>
             ELSE /\ name' = r.name
                  /\ args' = r.args
                  /\ UNCHANGED logged
                  /\ IF ~In(r.name, validators)
                     THEN /\ Throw(Error("LLM responded with unknown tool call"))
                          /\ UNCHANGED <<request, result, triesLeft, maxRetries, calls,
                                         submissions, gcCalls, gcFails, gcDelays,
                                         rejected>>
                     ELSE Validation(r.name, r.args)
  /\ UNCHANGED <<envKey, input, validators>>
  /\ UNCHANGED processVars

Next ==
  \/ RequestAIStart
  \/ RemoteSuccess
  \/ RemoteFailure
  \/ DelayDone

Spec == Init /\ [][Next]_vars

(***************************************************************************)
(* The operation under the assumption that what it awaits settles: the     *)
(* synchronous start runs, every remote call resolves or rejects and every *)
(* timer fires.                                                            *)
(***************************************************************************)
Fairness ==
  /\ WF_vars(RequestAIStart)
  /\ WF_vars(RemoteSuccess \/ RemoteFailure)
  /\ WF_vars(DelayDone)

SpecLive == Init /\ [][Next]_vars /\ Fairness

(***************************************************************************)
(* Several operations in one process.  Each requestAI call is a record of  *)
(* its locals; the conversation array of its request lives on the heap and *)
(* the record holds a reference to it, as `request.contents` does.         *)
(***************************************************************************)
\* DEFAULT_RETRY_OPTIONS, the one module-level object of AIRequest.ts.
RetryDefaults == [maxRetries |-> DefaultMaxRetries]

\* The locals of a requestAI call that has not run yet.
NewOperation(inp) ==
  [pc |-> "start", input |-> inp, ref |-> 0, config |-> Undefined,
   validators |-> Undefined, triesLeft |-> 0, maxRetries |-> 0,
   result |-> Undefined, error |-> NoError, calls |-> 0]

\* Variant: the conversation array is one module-level array.
AllocContents_shared(h, turns) ==
  [ref |-> 1, heap |-> IF Len(h) = 0 THEN <<turns>> ELSE h]

\* The array literal `contents: [...]`: a new array at each evaluation.
AllocContents(h, turns) == [ref |-> Len(h) + 1, heap |-> Append(h, turns)]

OpThrow(op, e) == [op EXCEPT !.pc = "raised", !.error = e]

\* generateContent entered with opts.maxRetries = mr.
OpGenerateContentEntry(op, mr) ==
  IF NoRetriesLeft(mr)
  THEN OpThrow([op EXCEPT !.maxRetries = mr], Error("generateContent: no retries left"))
  ELSE [op EXCEPT !.maxRetries = mr, !.pc = "remote", !.calls = @ + 1]

\* while (triesLeft-- > 0) with the countdown at t.
OpLoopHead(op, t) ==
  IF HasTriesLeft(t)
  THEN OpGenerateContentEntry([op EXCEPT !.triesLeft = t - 1], RetryDefaults.maxRetries)
  ELSE OpThrow([op EXCEPT !.triesLeft = t - 1],
               Error("Given up on trying to get well-formed response from LLM"))

\* requestAI(inp) from its call to its first suspension.
OpStart(inp, key, h) ==
  LET params == buildAIRequestParameters(inp)
      a      == AllocContents(h, params.request.contents)
      op     == [NewOperation(inp) EXCEPT !.ref = a.ref,
                                          !.config = params.request.config,
                                          !.validators = params.validators]
  IN [op   |-> IF KeyMissing(key)
               THEN OpThrow(op, Error("GEMINI_API_KEY environment variable is unset"))
               ELSE OpLoopHead(op, InitialTriesLeft),
      heap |-> a.heap]

\* The remote call of the operation resolves with `response`.
OpRemoteSuccess(op, h, response) ==
  LET r == extractAIResponse(response)
  IN IF r.kind = "throw" THEN [op |-> OpThrow(op, Error(r.error)), heap |-> h]
     ELSE IF ~In(r.name, op.validators)
     THEN [op |-> OpThrow(op, Error("LLM responded with unknown tool call")), heap |-> h]
     ELSE LET validated == CallValidator(op.validators, r.name, r.args)
          IN CASE validated.kind = "throw" ->
                    [op |-> OpThrow(op, Error(validated.error)), heap |-> h]
               [] validated.kind = "data" ->
                    [op   |-> [op EXCEPT !.pc = "returned", !.result = validated.value],
                     heap |-> h]
               [] validated.kind = "ArkErrors" ->
                    [op   |-> OpLoopHead(op, op.triesLeft),
                     heap |-> [h EXCEPT ![op.ref] =
                                 Push(@, CorrectionTurns(r.name, r.args, validated.summary,
                                                         SchemaOf(op.validators, r.name)))]]

\* The remote call of the operation rejects with e.
OpRemoteFailure(op, e) == IF IsTransient(e) THEN [op EXCEPT !.pc = "delay"] ELSE OpThrow(op, e)

\* The delay of the operation elapses.
OpDelayDone(op) == OpGenerateContentEntry(op, op.maxRetries - 1)

(***************************************************************************)
(* Two requestAI operations started by one caller and running              *)
(* concurrently: their suspensions resolve in any order.                   *)
(***************************************************************************)
OpIds == {1, 2}

PairInput(i) ==
  [query   |-> [value |-> IF i = 1 THEN "Determine the role" ELSE "Return the standard"],
   context |-> << [value |-> "# Task"] >>,
   select  |-> IF i = 1 THEN <<HelloShape>> ELSE <<WhyShape>>]

\* What the provider answers in this scenario: an answer of either shape
\* (valid for one operation, a violation for the other) or no parts at all.
PairResponses ==
  {Response(<< Part([name |-> Str("option-0"), args |-> a]) >>) :
     a \in {SomeArgs, [answer |-> Str("Why")]}} \cup {Response(<< >>)}

PairErrors == {ApiError(503), ApiError(500)}

PairInit ==
  /\ OperationInit
  /\ input.select = PairInput(1).select
  /\ ops = [i \in OpIds |-> NewOperation(PairInput(i))]
  /\ heap = << >>
  /\ mainPc = "none"
  /\ exitCode = 0

PairStart ==
  \E i \in OpIds :
    /\ ops[i].pc = "start"
    /\ LET s == OpStart(ops[i].input, envKey, heap)
       IN ops' = [ops EXCEPT ![i] = s.op] /\ heap' = s.heap
    /\ UNCHANGED <<operationVars, envKey, mainPc, exitCode>>

PairRemoteSuccess ==
  \E i \in OpIds : \E response \in PairResponses :
    /\ ops[i].pc = "remote"
    /\ LET s == OpRemoteSuccess(ops[i], heap, response)
       IN ops' = [ops EXCEPT ![i] = s.op] /\ heap' = s.heap
    /\ UNCHANGED <<operationVars, envKey, mainPc, exitCode>>

PairRemoteFailure ==
  \E i \in OpIds : \E e \in PairErrors :
    /\ ops[i].pc = "remote"
    /\ ops' = [ops EXCEPT ![i] = OpRemoteFailure(ops[i], e)]
    /\ UNCHANGED <<operationVars, envKey, heap, mainPc, exitCode>>

PairDelayDone ==
  \E i \in OpIds :
    /\ ops[i].pc = "delay"
    /\ ops' = [ops EXCEPT ![i] = OpDelayDone(ops[i])]
    /\ UNCHANGED <<operationVars, envKey, heap, mainPc, exitCode>>

PairNext ==
  \/ PairStart
  \/ PairRemoteSuccess
  \/ PairRemoteFailure
  \/ PairDelayDone

SpecPair == PairInit /\ [][PairNext]_vars

(***************************************************************************)
(* main() of the CLI from its first await: the two git commands, the role  *)
(* query, the standard/methodology query, and the catch of `void main()`.  *)
(* The continuation of main after an awaited promise settles runs in the   *)
(* same turn of the event loop, so it belongs to the step that settles it. *)
(***************************************************************************)
\* context(header, tag, value): the rendered text, kept as its pieces.
Context(header, tag, value) == [value |-> [header |-> header, tag |-> tag, value |-> value]]

\* const ctx = [task, projectDirtree, gitStatus, gitLog, projectFiles]
MainCtx ==
  << Context("Task", "task",
             Str("Review the Project adherence to OpenSpec process in letter and spirit")),
     Context("Project Dirtree", "dirtree", Str("openspec/")),
     Context("Git Status", "git-status", Str("## main")),
     Context("Last 10 Git Log Entries for openspec/", "git-log", Str("")),
     Context("Relevant Files", "files", Str("<file/>")) >>

RoleInput ==
  [query   |-> [value |-> "Determine the LLM role (personality) suitable for the task execution on this project."],
   context |-> MainCtx,
   select  |-> <<RoleShape>>]

\* The second query, with the role context made of roleResponse.role.
StandardInput(roleResponse) ==
  [query   |-> [value |-> "Return brief standard and brief methodology on how the AI should execute the task on this project"],
   context |-> <<Context("Role", "role", Get(roleResponse, "role"))>> \o MainCtx,
   select  |-> <<StandardShape>>]

RoleAnswer ==
  [answer  |-> Str("Role suitable for the task execution on this project"),
   role    |-> Str("Auditor"),
   remarks |-> Str("Roses are red.")]

StandardAnswer ==
  [answer      |-> Str("Standard and methodology on how the AI should execute the task"),
   standard    |-> Str("OpenSpec"),
   methodology |-> Str("Walkthrough"),
   remarks     |-> Str("Roses are red.")]

\* What the provider answers in this scenario: the one compiled identifier
\* or a member name of Object.prototype, with either answer or a foreign
\* object; or no parts at all.
MainResponses ==
  {Response(<< Part([name |-> Str(n), args |-> a]) >>) :
     n \in {"option-0", "constructor"},
     a \in {RoleAnswer, StandardAnswer, [answer |-> Str("Why")]}} \cup {Response(<< >>)}

\* A requestAI call main has not made yet.
NotCalled == [NewOperation(Undefined) EXCEPT !.pc = "idle"]

MainPcValues == {"gitStatus", "gitLog", "role", "standard", "done", "failed"}

MainInit ==
  /\ OperationInit
  /\ input.select = PairInput(1).select
  /\ ops = [i \in OpIds |-> NotCalled]
  /\ heap = << >>
  /\ mainPc = "gitStatus"
  /\ exitCode = 0

\* The query main is awaiting.
MainCurrent == IF mainPc = "role" THEN 1 ELSE 2

\* main() resumed after its call i has become op, with the heap at h: the
\* catch handler on a rejection, the next query or the end on a result.
MainAfter(i, op, h) ==
  LET stepped == [ops EXCEPT ![i] = op]
  IN IF op.pc = "raised"
     THEN [ops |-> stepped, heap |-> h, mainPc |-> "failed", exitCode |-> 1]
     ELSE IF op.pc # "returned"
     THEN [ops |-> stepped, heap |-> h, mainPc |-> IF i = 1 THEN "role" ELSE "standard",
           exitCode |-> exitCode]
     ELSE IF i = 2
     THEN [ops |-> stepped, heap |-> h, mainPc |-> "done", exitCode |-> exitCode]
     ELSE LET s == OpStart(StandardInput(op.result), envKey, h)
          IN IF s.op.pc = "raised"
             THEN [ops |-> [stepped EXCEPT ![2] = s.op], heap |-> s.heap,
                   mainPc |-> "failed", exitCode |-> 1]
             ELSE [ops |-> [stepped EXCEPT ![2] = s.op], heap |-> s.heap,
                   mainPc |-> "standard", exitCode |-> exitCode]

MainBecomes(m) ==
  /\ ops' = m.ops
  /\ heap' = m.heap
  /\ mainPc' = m.mainPc
  /\ exitCode' = m.exitCode
  /\ UNCHANGED <<operationVars, envKey>>

\* await $$`git status -sbu` resolves.
MainGitStatusDone ==
  /\ mainPc = "gitStatus"
  /\ mainPc' = "gitLog"
  /\ UNCHANGED <<operationVars, envKey, ops, heap, exitCode>>

\* await $$`git log ...` resolves: main reaches the role query.
MainGitLogDone ==
  /\ mainPc = "gitLog"
  /\ LET s == OpStart(RoleInput, envKey, heap)
     IN MainBecomes(MainAfter(1, s.op, s.heap))

\* Either git command rejects.
MainGitFailed ==
  /\ mainPc \in {"gitStatus", "gitLog"}
  /\ mainPc' = "failed"
  /\ exitCode' = 1
  /\ UNCHANGED <<operationVars, envKey, ops, heap>>

MainRemoteSuccess ==
  /\ mainPc \in {"role", "standard"}
  /\ ops[MainCurrent].pc = "remote"
  /\ \E response \in MainResponses :
       LET s == OpRemoteSuccess(ops[MainCurrent], heap, response)
       IN MainBecomes(MainAfter(MainCurrent, s.op, s.heap))

MainRemoteFailure ==
  /\ mainPc \in {"role", "standard"}
  /\ ops[MainCurrent].pc = "remote"
  /\ \E e \in PairErrors :
       MainBecomes(MainAfter(MainCurrent, OpRemoteFailure(ops[MainCurrent], e), heap))

MainDelayDone ==
  /\ mainPc \in {"role", "standard"}
  /\ ops[MainCurrent].pc = "delay"
  /\ MainBecomes(MainAfter(MainCurrent, OpDelayDone(ops[MainCurrent]), heap))

MainNext ==
  \/ MainGitStatusDone
  \/ MainGitLogDone
  \/ MainGitFailed
  \/ MainRemoteSuccess
  \/ MainRemoteFailure
  \/ MainDelayDone

SpecMain == MainInit /\ [][MainNext]_vars

(***************************************************************************)
(* Type correctness.                                                       *)
(***************************************************************************)
PcValues == {"start", "remote", "delay", "returned", "raised"}

Terminated == pc \in {"returned", "raised"}

TypeOK ==
  /\ pc \in PcValues
  /\ triesLeft \in -1..InitialTriesLeft
  /\ maxRetries \in 0..DefaultMaxRetries
  /\ calls \in 0..(InitialTriesLeft * DefaultMaxRetries)
  /\ received <= submissions
  /\ submissions <= InitialTriesLeft

(***************************************************************************)
(* Vocabulary of the properties.                                           *)
(***************************************************************************)
\* The identifiers compiled for this request: option-0 .. option-(n-1).
CompiledIdentifiers == {OptionName(i - 1) : i \in 1..Len(input.select)}

\* The schema violations the operation has seen: each appended two turns.
Violations == (Len(request.contents) - 1) \div 2

\* The last thing that happened to the operation is the handling of the
\* response `raw` (and not a rejected remote call or a pending submission).
HandledLast == received > 0 /\ received = submissions

GivenUp == Error("Given up on trying to get well-formed response from LLM")

NoRetriesLeftError == Error("generateContent: no retries left")

UnknownOption == Error("LLM responded with unknown tool call")

BadResponse == Error("Bad LLM response")

KeyUnset == Error("GEMINI_API_KEY environment variable is unset")

(***************************************************************************)
(* C1  Whenever requestAI has returned, the returned value is the argument *)
(* object of the last response, the selected identifier is one of the      *)
(* compiled options and that option's validator accepts the value: nothing *)
(* unvalidated or rejected is ever returned.                               *)
(***************************************************************************)
C1_ReturnsOnlyValidated ==
  pc = "returned" =>
    /\ name \in CompiledIdentifiers
    /\ name \in DOMAIN validators
    /\ result = args
    /\ Validate(validators[name], result).ok

(***************************************************************************)
(* C2  When every response up to the correction bound violated the schema, *)
(* requestAI has raised "Given up ..." after exactly InitialTriesLeft      *)
(* submissions, with no submission pending and no value returned; and it   *)
(* gives up in no other situation.                                         *)
(***************************************************************************)
C2_GivesUpAfterBound ==
  /\ (pc # "start" /\ Violations >= InitialTriesLeft) =>
       /\ pc = "raised"
       /\ error = GivenUp
       /\ submissions = InitialTriesLeft
       /\ received = InitialTriesLeft
       /\ result = Undefined
  /\ error = GivenUp =>
       /\ pc = "raised"
       /\ Violations = InitialTriesLeft
       /\ submissions = InitialTriesLeft

C2_Witness == pc = "raised" /\ error = GivenUp /\ calls > InitialTriesLeft

(***************************************************************************)
(* C3  If the first j < InitialTriesLeft responses violated the schema and *)
(* response j+1 is accepted by the validator of the option it selects,     *)
(* requestAI has returned exactly the argument object of response j+1; the *)
(* loop never gives up before InitialTriesLeft violations.                 *)
(***************************************************************************)
C3_ReturnsAfterCorrection ==
  LET r == extractAIResponse(raw)
  IN /\ ( /\ HandledLast
          /\ r.kind = "ok"
          /\ r.name \in CompiledIdentifiers
          /\ Validate(Type(input.select[CHOOSE i \in 1..Len(input.select) :
                                          OptionName(i - 1) = r.name]), r.args).ok )
        => /\ pc = "returned"
           /\ result = r.args
           /\ Violations = received - 1
           /\ received <= InitialTriesLeft
     /\ (pc = "raised" /\ error = GivenUp) => Violations >= InitialTriesLeft

C3_Witness ==
  /\ pc = "returned"
  /\ received = InitialTriesLeft
  /\ Violations = InitialTriesLeft - 1
  /\ result = [answer |-> Str("Hello"), remarks |-> Str("Roses are red.")]

(***************************************************************************)
(* C4  Inside one generateContent invocation, after k transient failures   *)
(* with k below the ceiling the call k+1 is made, after exactly k delays;  *)
(* when that call succeeds the invocation has made exactly k+1 remote      *)
(* calls and its response is the one handed to the loop.  The invocation   *)
(* refuses to call only once the failures have reached the ceiling.        *)
(***************************************************************************)
C4_SuccessAfterTransients ==
  /\ pc = "remote" =>
       /\ gcFails < DefaultMaxRetries
       /\ gcCalls = gcFails + 1
       /\ gcDelays = gcFails
  /\ pc = "delay" => gcCalls = gcFails /\ gcDelays = gcFails
  /\ (Terminated /\ HandledLast) =>
       /\ gcFails < DefaultMaxRetries
       /\ gcCalls = gcFails + 1
       /\ gcDelays = gcFails
       /\ raw \in Responses
  /\ (pc = "raised" /\ error = NoRetriesLeftError) => gcFails >= DefaultMaxRetries

C4_Witness ==
  /\ pc = "returned"
  /\ gcFails = DefaultMaxRetries - 1
  /\ gcCalls = DefaultMaxRetries
  /\ rejected = ApiError(503)

(***************************************************************************)
(* C5  The fatal transient-failure error is raised only when ceiling + 1   *)
(* consecutive remote calls of the invocation have failed transiently.     *)
(***************************************************************************)
C5_FatalAfterCeilingPlusOne ==
  (pc = "raised" /\ error = NoRetriesLeftError) =>
    /\ gcCalls = DefaultMaxRetries + 1
    /\ gcFails = DefaultMaxRetries + 1

(***************************************************************************)
(* C6  When a remote call rejects with an error that is not an ApiError of *)
(* status 503, the operation has raised that same error at once: no delay  *)
(* was started after the failing call and no remote call followed it,      *)
(* whatever transport budget was left.                                     *)
(***************************************************************************)
C6_OtherErrorsPropagate ==
  /\ (rejected # NoError /\ ~(rejected.kind = "ApiError" /\ rejected.status = 503)) =>
       /\ pc = "raised"
       /\ error = rejected
       /\ gcCalls = gcFails + 1
       /\ gcDelays = gcFails
       /\ received = submissions - 1
  /\ (pc = "raised" /\ error \in RemoteErrors) => error = rejected /\ error # ApiError(503)

C6_Witness ==
  /\ pc = "raised"
  /\ error = ApiError(429)
  /\ gcFails = 2
  /\ maxRetries = DefaultMaxRetries - 2
  /\ calls = 4

C8_MalformedIsReported ==
  (HandledLast /\ extractAIResponse(raw).kind # "ok") =>
    /\ pc = "raised"
    /\ error = BadResponse
    /\ raw \in logged
    /\ result = Undefined

(***************************************************************************)
(* C9  For every selected identifier that is not a compiled identifier of  *)
(* the request, requestAI has raised the unknown-option error, returned    *)
(* nothing and appended nothing.                                           *)
(***************************************************************************)
C9_UnknownOptionIsFatal ==
  LET r == extractAIResponse(raw)
  IN (HandledLast /\ r.kind = "ok" /\ r.name \notin CompiledIdentifiers) =>
       /\ pc = "raised"
       /\ error = UnknownOption
       /\ result = Undefined
       /\ Violations = received - 1

(***************************************************************************)
(* C10  Every change of the conversation is an append of exactly two       *)
(* turns: a model turn echoing the identifier and arguments extracted from *)
(* the response just handled, then a user turn carrying the validator's    *)
(* violation summary and the schema of that identifier; the turns that     *)
(* were there stay as they were, and so does the rest of the request.      *)
(***************************************************************************)
C10_AppendOnly ==
  [][ (pc # "start" /\ request' # request) =>
        /\ extractAIResponse(raw') = [kind |-> "ok", name |-> name', args |-> args']
        /\ name' \in CompiledIdentifiers
        /\ LET v == Validate(validators[name'], args')
           IN /\ ~v.ok
              /\ request' =
                   [request EXCEPT !.contents = @ \o
                      << [parts |-> << [functionCall |->
                                          [name |-> name', args |-> args']] >>,
                          role |-> "model"],
                         [parts |-> << [text |-> [template |-> "correction",
                                                  name |-> name',
                                                  error |-> v.summary,
                                                  schema |-> ToJsonSchema(validators[name'])]] >>,
                          role |-> "user"] >>] ]_vars

C10_Witness ==
  /\ pc = "remote"
  /\ Len(request.contents) = 3
  /\ request.contents[2].role = "model"
  /\ request.contents[3].role = "user"
  /\ request.contents[2].parts[1].functionCall.name = "option-1"


(***************************************************************************)
(* C11  When the violation that exhausts the correction budget has been    *)
(* handled, the conversation holds the correction turns of the earlier     *)
(* violations only: nothing was appended for the last one.                 *)
(***************************************************************************)
C11_NoAppendOnExhaustion ==
  (pc = "raised" /\ error = GivenUp) =>
    Len(request.contents) = 1 + 2 * (InitialTriesLeft - 1)

(***************************************************************************)
(* C12  The identifier of the selection the last correction turn is about. *)
(***************************************************************************)
LastCorrected == request.contents[Len(request.contents) - 1].parts[1].functionCall.name

(***************************************************************************)
(* C12 (as claimed)  A value returned after a correction comes from a      *)
(* selection of the identifier that was corrected.                         *)
(***************************************************************************)
C12_SameOptionOnly ==
  (pc = "returned" /\ Len(request.contents) > 1 /\ name \in CompiledIdentifiers) =>
    name = LastCorrected

(***************************************************************************)
(* C12 (amended)  After a violation on option X the request carries a      *)
(* correction turn naming X with the schema of X, its forced-selection     *)
(* configuration still allows every compiled identifier, and the next      *)
(* answer is returned whenever it selects a compiled option, X or another, *)
(* whose validator accepts it.                                             *)
(***************************************************************************)
C12_CorrectionIsAdvisory ==
  (pc # "start" /\ Len(request.contents) > 1) =>
    /\ LastCorrected \in CompiledIdentifiers
    /\ LET text == request.contents[Len(request.contents)].parts[1].text
       IN /\ text.name = LastCorrected
          /\ text.schema = ToJsonSchema(validators[LastCorrected])
    /\ { request.config.toolConfig.functionCallingConfig.allowedFunctionNames[i] :
           i \in 1..Len(input.select) } = CompiledIdentifiers
    /\ ( /\ HandledLast
         /\ extractAIResponse(raw).kind = "ok"
         /\ name \in CompiledIdentifiers
         /\ Validate(validators[name], args).ok )
       => (pc = "returned" /\ result = args)

C12_Witness ==
  /\ pc = "returned"
  /\ Len(request.contents) = 3
  /\ LastCorrected = "option-0"
  /\ name = "option-1"
  /\ result = [answer |-> Str("Why")]

(***************************************************************************)
(* C13  The two countdowns are independent: a rejected remote call, a      *)
(* delay and a retry leave the correction countdown alone; every           *)
(* submission of the loop starts a generateContent invocation with the     *)
(* full ceiling, whatever the earlier submissions used up; and the         *)
(* correction countdown depends on the number of submissions only.         *)
(***************************************************************************)
C13_IndependentBudgets ==
  [][ /\ (pc \in {"remote", "delay"} /\ received' = received) => triesLeft' = triesLeft
      /\ (submissions' = submissions + 1) =>
           /\ maxRetries' = DefaultMaxRetries
           /\ gcFails' = 0
           /\ gcCalls' = 1
           /\ triesLeft' = InitialTriesLeft - submissions'
      /\ (pc = "delay") => (maxRetries' = maxRetries - 1 /\ submissions' = submissions)
    ]_vars

C13_Witness ==
  /\ pc = "remote"
  /\ submissions = InitialTriesLeft
  /\ calls = DefaultMaxRetries + 1
  /\ maxRetries = DefaultMaxRetries
  /\ triesLeft = 0


(***************************************************************************)
(* C15  The identifiers of a request are pairwise distinct and positional: *)
(* the i-th identifier is option-(i-1), its declaration carries the schema *)
(* of the i-th shape and its validator is the one compiled from the i-th   *)
(* shape, so identifiers and positions correspond one to one.              *)
(***************************************************************************)
C15_IdentifiersPositional ==
  pc # "start" =>
    LET n     == Len(input.select)
        names == request.config.toolConfig.functionCallingConfig.allowedFunctionNames
        decls == request.config.tools[1].functionDeclarations
    IN /\ Len(names) = n
       /\ Len(decls) = n
       /\ \A i, j \in 1..n : names[i] = names[j] => i = j
       /\ DOMAIN validators = {names[i] : i \in 1..n}
       /\ \A i \in 1..n :
            /\ names[i] = <<"option-0", "option-1", "option-2", "option-3", "option-4">>[i]
            /\ validators[names[i]] = Type(input.select[i])
            /\ decls[i] = [name |-> names[i],
                           parametersJsonSchema |-> ToJsonSchema(Type(input.select[i]))]

C15_Witness ==
  /\ pc = "returned"
  /\ input.select = <<WhyShape, HelloShape>>
  /\ name = "option-1"
  /\ result = [answer |-> Str("Hello"), remarks |-> Str("Roses are red.")]

SelectedShape == input.select[CHOOSE i \in 1..Len(input.select) : OptionName(i - 1) = name]

\* A key of the selected shape without the trailing `?` is absent.
MissesRequired == \E k \in DOMAIN SelectedShape : ~IsOptionalKey(k) /\ k \notin DOMAIN args

\* The discriminant is present and is not the literal of the selected shape.
WrongDiscriminant ==
  /\ "answer" \in DOMAIN args
  /\ args.answer # Str(ParsePredicate(SelectedShape.answer).const)

(***************************************************************************)
(* C17  A selection that misses a required field of its shape, or carries  *)
(* a discriminant other than the literal of the shape, is never returned:  *)
(* it is handled as a violation whose correction turn carries a non-empty  *)
(* description.  A selection whose only absent field is an optional one    *)
(* (key with a trailing `?`) and whose discriminant is right is returned.  *)
(***************************************************************************)
C17_RequiredAndDiscriminant ==
  (HandledLast /\ raw \in WellFormedResponses /\ name \in CompiledIdentifiers) =>
    /\ (MissesRequired \/ WrongDiscriminant) =>
         /\ pc \in {"remote", "raised"}
         /\ pc = "raised" => error = GivenUp
         /\ Len(request.contents) = 1 + 2 * received
         /\ LET text == request.contents[Len(request.contents)].parts[1].text
            IN text.name = name /\ text.error # {}
    /\ ( /\ ~MissesRequired
         /\ ~WrongDiscriminant
         /\ \E k \in DOMAIN SelectedShape : IsOptionalKey(k)
         /\ DOMAIN args = {k \in DOMAIN SelectedShape : ~IsOptionalKey(k)} )
       => (pc = "returned" /\ result = args)

C17_Witness ==
  /\ pc = "returned"
  /\ input.select = <<HelloShape, WhyShape>>
  /\ Len(request.contents) = 3
  /\ request.contents[2].parts[1].functionCall =
       [name |-> "option-0", args |-> [answer |-> Str("Hello")]]
  /\ name = "option-1"
  /\ result = [answer |-> Str("Why")]

(***************************************************************************)
(* C18  A response the extraction rejects ends the operation at once: the  *)
(* step that receives it raises, with the conversation, the number of      *)
(* remote calls and of submissions and the correction countdown unchanged, *)
(* and nothing happens after an operation has raised.                      *)
(***************************************************************************)
C18_ExtractionFailureIsFatal ==
  [][ /\ (received' = received + 1 /\ raw' \in MalformedResponses) =>
           /\ pc' = "raised"
           /\ error' \in {BadResponse, Error("TypeError: reading functionCall of undefined")}
           /\ request' = request
           /\ calls' = calls
           /\ submissions' = submissions
           /\ triesLeft' = triesLeft
      /\ pc # "raised"
    ]_vars

C18_Witness ==
  /\ pc = "raised"
  /\ HandledLast
  /\ received = 1
  /\ raw = Response(<< [text |-> Str("no")],
                       Part([name |-> Str("option-0"), args |-> SomeArgs]) >>)
  /\ error = BadResponse
  /\ triesLeft = InitialTriesLeft - 1
  /\ Len(request.contents) = 1

(***************************************************************************)
(* C20  In the request the operation holds, the allowed function names,    *)
(* the names of the declared functions and the keys of the validators are  *)
(* the compiled identifiers, in order; the mode is ANY and the temperature *)
(* 0; the conversation starts with the one user turn made of the query and *)
(* the declarations, and holds nothing else until a response is handled.   *)
(***************************************************************************)
C20_OptionSetsCoincide ==
  pc # "start" =>
    LET cfg   == request.config
        fcc   == cfg.toolConfig.functionCallingConfig
        decls == cfg.tools[1].functionDeclarations
        n     == Len(input.select)
    IN /\ fcc.allowedFunctionNames = [i \in 1..n |-> OptionName(i - 1)]
       /\ [i \in 1..Len(decls) |-> decls[i].name] = fcc.allowedFunctionNames
       /\ DOMAIN validators = {OptionName(i - 1) : i \in 1..n}
       /\ Len(cfg.tools) = 1
       /\ fcc.mode = "ANY"
       /\ cfg.temperature = 0
       /\ request.contents[1] =
            [parts |-> << [text |-> [template |-> "query", query |-> input.query.value,
                                     schema |-> decls]] >>,
             role |-> "user"]
       /\ received = 0 => Len(request.contents) = 1

C20_Witness ==
  /\ pc = "remote"
  /\ submissions = 1
  /\ calls = 1
  /\ Len(input.select) = MaxShapes
  /\ Len(request.contents) = 1


(***************************************************************************)
(* C14  Two concurrent operations are independent: every step is the step  *)
(* of one operation and leaves the locals (budgets, outcome) and the       *)
(* conversation of the other as they were; the two conversations are       *)
(* different arrays, and each starts with the query of its own operation.  *)
(***************************************************************************)
C14_OperationsIndependent ==
  [][ /\ \E i \in OpIds : \A j \in OpIds \ {i} :
           /\ ops'[j] = ops[j]
           /\ ops[j].ref # 0 => heap'[ops[j].ref] = heap[ops[j].ref]
      /\ \A i, j \in OpIds : (i # j /\ ops'[i].ref # 0) => ops'[i].ref # ops'[j].ref
      /\ \A i \in OpIds :
           ops'[i].ref # 0 =>
             heap'[ops'[i].ref][1].parts[1].text.query = ops'[i].input.query.value
    ]_vars

C14_Witness ==
  /\ ops[1].pc = "returned"
  /\ ops[1].ref = 2
  /\ Len(heap[ops[1].ref]) = 3
  /\ ops[1].calls = 2
  /\ ops[2].pc = "raised"
  /\ ops[2].error = GivenUp
  /\ Len(heap[ops[2].ref]) = 5
  /\ ops[2].calls = 3


(***************************************************************************)
(* C19  Vocabulary of the main sequence.                                   *)
(***************************************************************************)
InFlight(op) == op.pc \in {"remote", "delay"}

\* The two queries never run at the same time, and the second is not made
\* before the first has returned.
MainOneAtATime ==
  /\ ~(InFlight(ops[1]) /\ InFlight(ops[2]))
  /\ ops[2].pc # "idle" => ops[1].pc = "returned"

\* The second query is made only after an answer the role validator accepts.
MainLaterAfterValidated ==
  ops[2].pc # "idle" => Validate(Type(RoleShape), ops[1].result).ok

\* A query that raised ends main: no later query, exit status 1.
MainFatalStops ==
  /\ (\E i \in OpIds : ops[i].pc = "raised") => (mainPc = "failed" /\ exitCode = 1)
  /\ ops[1].pc = "raised" => ops[2].pc = "idle"

(***************************************************************************)
(* C19  In main the queries run strictly one after another, the            *)
(* standard/methodology query is made only after the role query returned   *)
(* a validated answer, and a query that raises ends main with no later     *)
(* query and a non-zero exit status.                                       *)
(***************************************************************************)
C19_MainSequence ==
  /\ MainOneAtATime
  /\ MainLaterAfterValidated
  /\ MainFatalStops


(***************************************************************************)
(* C21  generateContent owns no conversation state: while an invocation    *)
(* retries (a remote call rejects, a delay elapses) and when it raises,    *)
(* the request, the validators, the correction countdown and the number    *)
(* of submissions stay as they were, so every remote call of the           *)
(* invocation sends the same request; when it returns, the configuration   *)
(* is unchanged and the conversation it was given is still there, before   *)
(* whatever the loop appends.                                              *)
(***************************************************************************)
C21_TransportLeavesRequest ==
  [][ /\ (pc \in {"remote", "delay"} /\ received' = received) =>
           /\ request' = request
           /\ validators' = validators
           /\ triesLeft' = triesLeft
           /\ submissions' = submissions
      /\ (pc \in {"remote", "delay"} /\ received' = received + 1) =>
           /\ request'.config = request.config
           /\ request'.model = request.model
           /\ SubSeq(request'.contents, 1, Len(request.contents)) = request.contents
    ]_vars

C21_Witness ==
  /\ pc = "raised"
  /\ error = NoRetriesLeftError
  /\ submissions = InitialTriesLeft
  /\ gcFails = DefaultMaxRetries
  /\ Len(request.contents) = 3
  /\ triesLeft = 0

(***************************************************************************)
(* C22  While a submission is in flight the conversation has 1 + 2f turns, *)
(* f being the violations handled so far; its first turn is the original   *)
(* user turn, the roles alternate user, model, user, ..., the last turn is *)
(* a user turn and every model turn has one part, a function call.         *)
(***************************************************************************)
C22_ConversationShape ==
  pc \in {"remote", "delay"} =>
    LET c == request.contents
    IN /\ Len(c) = 1 + 2 * received
       /\ c[1] = [parts |-> << [text |-> [template |-> "query",
                                          query |-> input.query.value,
                                          schema |-> request.config.tools[1].functionDeclarations]] >>,
                  role |-> "user"]
       /\ \A i \in 1..Len(c) : c[i].role = IF i % 2 = 1 THEN "user" ELSE "model"
       /\ c[Len(c)].role = "user"
       /\ \A i \in 1..Len(c) :
            c[i].role = "model" =>
              (Len(c[i].parts) = 1 /\ DOMAIN c[i].parts[1] = {"functionCall"})

C22_Witness ==
  /\ pc = "delay"
  /\ submissions = InitialTriesLeft
  /\ received = 1
  /\ Len(request.contents) = 3
  /\ request.contents[2].role = "model"

(***************************************************************************)
(* C23  One operation makes at most (correction budget) x (transport       *)
(* ceiling) remote calls: at most the ceiling inside one invocation, and   *)
(* at most the budget invocations.                                         *)
(***************************************************************************)
C23_CallsBounded ==
  /\ calls <= InitialTriesLeft * DefaultMaxRetries
  /\ gcCalls <= DefaultMaxRetries
  /\ submissions <= InitialTriesLeft

C23_Witness ==
  /\ calls = InitialTriesLeft * DefaultMaxRetries
  /\ pc = "raised"
  /\ error = NoRetriesLeftError


(***************************************************************************)
(* C24  Provided every remote call and every delay completes, the          *)
(* operation ends: it returns or raises, and stays so.                     *)
(***************************************************************************)
C24_Terminates == <>[]Terminated

C24_Witness ==
  /\ Terminated
  /\ error = GivenUp
  /\ calls = InitialTriesLeft * DefaultMaxRetries
  /\ gcFails = DefaultMaxRetries - 1

====
